---- MODULE Spec2Model ----
(***************************************************************************)
(* GitLab Job Manager API (src/main.py): a job store read from a backing   *)
(* file and a commit relay that probes the remote repository for a path    *)
(* and then creates (POST) or updates (PUT) the file.                      *)
(*                                                                         *)
(* Strings that the code takes apart or encodes (paths, URLs, messages)    *)
(* are sequences of tokens: a token is either the separator "/" or a run   *)
(* of unreserved characters.  Each inbound request runs in its own client  *)
(* slot; a remote call is two steps, the call being sent and the remote    *)
(* answering it, so that other requests and out-of-band changes of the     *)
(* repository interleave with it.  The remote always answers a call with   *)
(* a status and a text.                                                    *)
(***************************************************************************)
EXTENDS Naturals, Sequences, FiniteSets

\* ------------------------------------------------------------------ bounds
\* longest backing file (number of job records)
MaxJobs == 2

\* ------------------------------------------------------------ input domains
JobIds      == {"a1", "b2"}
ScriptNames == {<<"x.sas">>, <<"dir", "/", "y.sas">>}
Contents    == {"", "data"}
Messages    == {<<"fix">>}
Clients     == {"c1", "c2"}

\* ---------------------------------------------------------------- settings
PROJECT_ID   == "42"
PROJECT_PATH == <<"group", "/", "repo">>
BASE_API_URL == <<"https://gitlab.com/api/v4">>
BASE_URL     == BASE_API_URL \o <<"/projects/", PROJECT_ID, "/repository/files">>

\* urllib.parse.quote(s, safe=""): every "/" becomes "%2F"; unreserved
\* characters are kept.
RECURSIVE quote(_)
quote(s) ==
    IF s = <<>> THEN <<>>
    ELSE (IF Head(s) = "/" THEN <<"%2F">> ELSE <<Head(s)>>) \o quote(Tail(s))

\* ------------------------------------------------------ Python call results
Return(v)   == [raised |-> FALSE, value |-> v]
\* raise HTTPException(status_code=s, detail=d)
HTTPException(s, d) == [raised |-> TRUE, status_code |-> s, detail |-> d]

\* --------------------------------------------------------------- job store
script_path_of(name) == <<"scripts", "/">> \o name
JobRecords ==
    { [job_id |-> j, script_name |-> n, script_path |-> script_path_of(n)] :
        j \in JobIds, n \in ScriptNames }

RECURSIVE SeqsUpTo(_, _)
SeqsUpTo(S, n) ==
    IF n = 0 THEN {<<>>}
    ELSE LET shorter == SeqsUpTo(S, n - 1)
         IN  shorter \cup { Append(s, e) : s \in {t \in shorter : Len(t) = n - 1}, e \in S }

\* The backing file gitlab_jobs.json: it either loads to its "jobs" list
\* (a file without the key loads to the empty list) or fails to load
\* (missing, not JSON, not an object).
BackingFiles ==
    { [load_error |-> FALSE, jobs |-> js] : js \in SeqsUpTo(JobRecords, MaxJobs) }
      \cup { [load_error |-> TRUE, jobs |-> <<>>] }

VARIABLES
    file,      \* the backing file
    remote,    \* paths that exist in the remote repository on branch main
    pc,        \* per client: where its request stands
    request,   \* per client: the inbound request
    frame,     \* per client: push_to_gitlab's arguments and locals
    log,       \* per client: the remote calls of the request, in order
    result,    \* per client: what push_to_gitlab returned or raised
    http       \* per client: the HTTP response of the route

vars == <<file, remote, pc, request, frame, log, result, http>>

load_jobs ==
    IF file.load_error THEN HTTPException(500, <<"Error loading jobs: ", "e">>)
    ELSE Return(file.jobs)

file_raw_url(job) ==
    BASE_API_URL \o <<"/projects/">> \o quote(PROJECT_PATH)
        \o <<"/repository/files/">> \o quote(job.script_path) \o <<"/raw?ref=main">>

WithRawUrl(job) ==
    [job_id |-> job.job_id, script_name |-> job.script_name,
     script_path |-> job.script_path, file_raw_url |-> file_raw_url(job)]

\* the loop keeping the last match instead of returning at the first one
RECURSIVE scan_jobs_last_match(_, _, _)
scan_jobs_last_match(jobs, job_id, i) ==
    IF i > Len(jobs) THEN HTTPException(404, <<"Job '", job_id, "' not found">>)
    ELSE LET later == scan_jobs_last_match(jobs, job_id, i + 1)
         IN  IF ~later.raised THEN later
             ELSE IF jobs[i].job_id = job_id THEN Return(WithRawUrl(jobs[i]))
             ELSE later

\* the for loop of get_job_by_id from index i on
RECURSIVE scan_jobs(_, _, _)
scan_jobs(jobs, job_id, i) ==
    IF i > Len(jobs) THEN HTTPException(404, <<"Job '", job_id, "' not found">>)
    ELSE IF jobs[i].job_id = job_id THEN Return(WithRawUrl(jobs[i]))
    ELSE scan_jobs(jobs, job_id, i + 1)

\* the lookup answering an unmatched id with an empty job instead of raising
get_job_by_id_no_raise(job_id) ==
    LET jobs == load_jobs
        found == IF jobs.raised THEN jobs ELSE scan_jobs(jobs.value, job_id, 1)
    IN  IF jobs.raised \/ ~found.raised THEN found
        ELSE Return(WithRawUrl([job_id |-> job_id, script_name |-> <<>>, script_path |-> <<>>]))

get_job_by_id(job_id) ==
    LET jobs == load_jobs
    IN  IF jobs.raised THEN jobs ELSE scan_jobs(jobs.value, job_id, 1)

\* FastAPI: what a route returns is a 200 response, an HTTPException is a
\* response with its status code and {"detail": detail}.
Response(r) ==
    IF r.raised THEN [status |-> r.status_code, body |-> [detail |-> r.detail]]
    ELSE [status |-> 200, body |-> r.value]

\* ------------------------------------------------- the remote repository API
\* urllib.parse.unquote, as the remote decodes the path segment of a URL
RECURSIVE unquote(_)
unquote(s) ==
    IF s = <<>> THEN <<>>
    ELSE (IF Head(s) = "%2F" THEN <<"/">> ELSE <<Head(s)>>) \o unquote(Tail(s))

\* the tokens of s before the first token t
RECURSIVE UpTo(_, _)
UpTo(s, t) ==
    IF s = <<>> \/ Head(s) = t THEN <<>> ELSE <<Head(s)>> \o UpTo(Tail(s), t)

\* the repository path a files-API URL names: the segment after BASE_URL/,
\* without the query
RemotePath(url) ==
    unquote(UpTo(SubSeq(url, Len(BASE_URL) + 2, Len(url)), "?ref="))

\* statuses the remote gives whatever the repository holds (a permission
\* error, a server error)
FailureStatuses == {403, 500}

RemoteText(status) ==
    CASE status = 200 -> "file"
      [] status = 201 -> "created"
      [] status = 400 -> "400 Bad Request"
      [] status = 403 -> "403 Forbidden"
      [] status = 404 -> "404 File Not Found"
      [] OTHER        -> "500 Internal Server Error"

RemoteResponse(status) == [status_code |-> status, text |-> RemoteText(status)]

\* GET = existence check, POST = create, PUT = update
RemoteStatuses(method, path) ==
    FailureStatuses \cup
      (CASE method = "GET"  -> (IF path \in remote THEN {200} ELSE {404})
         [] method = "POST" -> (IF path \in remote THEN {400} ELSE {201})
         [] OTHER           -> (IF path \in remote THEN {200} ELSE {400}))

RemoteEffect(method, path, status) ==
    IF method = "POST" /\ status = 201 THEN remote \cup {path} ELSE remote

\* ------------------------------------------------------------ commit relay
None == "None"
NoFrame ==
    [job |-> <<>>, file_path |-> <<>>, url |-> <<>>, payload |-> <<>>,
     exists |-> FALSE, method |-> "", action |-> ""]
NoResult   == [raised |-> FALSE, value |-> <<>>]
NoResponse == [status |-> 0, body |-> <<>>]

\* The events of a request's log: a call being sent, and the remote answering
\* it; existed records whether the path was in the repository at the moment
\* the remote handled the call.
Sent(method, url, data) ==
    [ev |-> "send", method |-> method, url |-> url, data |-> data,
     status_code |-> 0, text |-> "", existed |-> FALSE]
Received(call, response, existed) ==
    [ev |-> "recv", method |-> call.method, url |-> call.url, data |-> <<>>,
     status_code |-> response.status_code, text |-> response.text, existed |-> existed]

\* file_exists: the probe's URL, and the boolean it makes of the response
file_exists_url(file_path, branch) ==
    BASE_URL \o <<"/">> \o quote(file_path) \o <<"?ref=", branch>>

\* the probe read as "anything but not-found means the file is there"
file_exists_unless_404(response) == response.status_code # 404

file_exists_result(response) == response.status_code = 200

\* the branch of push_to_gitlab with the existence check ignored
push_write_always_create(exists) == [method |-> "POST", action |-> "created"]

\* push_to_gitlab: the write call chosen from what file_exists returned
push_write(exists) ==
    IF exists THEN [method |-> "PUT", action |-> "updated"]
    ELSE [method |-> "POST", action |-> "created"]

\* a failed write call reported as a gateway error of the service's own
push_outcome_translated(response, action, file_path) ==
    IF response.status_code \notin {200, 201}
    THEN HTTPException(502, "GitLab request failed")
    ELSE Return([status |-> "success", action |-> action, file_path |-> file_path])

\* push_to_gitlab: what it raises or returns once the write call has answered
push_outcome(response, action, file_path) ==
    IF response.status_code \notin {200, 201}
    THEN HTTPException(response.status_code, response.text)
    ELSE Return([status |-> "success", action |-> action, file_path |-> file_path])

\* the target path taken from the job's script_path
file_path_from_script_path(job) == job.script_path

\* commit_job: the target path in the repository
file_path_in_gitlab(job) == <<"sas", "/", "optimized", "/">> \o job.script_name

\* commit_job without its content check
commit_job_args_unchecked(job_id, payload) ==
    LET job == get_job_by_id(job_id)
        content == IF "content" \in DOMAIN payload THEN payload.content ELSE None
    IN  IF job.raised THEN job
        ELSE Return([job |-> job.value,
                     file_path |-> file_path_in_gitlab(job.value),
                     content |-> content,
                     commit_message |->
                         IF "commit_message" \in DOMAIN payload
                         THEN payload.commit_message
                         ELSE <<"Commit job logs for ">> \o job.value.script_name])

\* commit_job with the content check ahead of the job lookup
commit_job_args_content_first(job_id, payload) ==
    LET job == get_job_by_id(job_id)
        content == IF "content" \in DOMAIN payload THEN payload.content ELSE None
    IN  IF content = None \/ content = ""
        THEN HTTPException(400, <<"Missing 'content' in request body">>)
        ELSE IF job.raised THEN job
        ELSE Return([job |-> job.value,
                     file_path |-> file_path_in_gitlab(job.value),
                     content |-> content,
                     commit_message |->
                         IF "commit_message" \in DOMAIN payload
                         THEN payload.commit_message
                         ELSE <<"Commit job logs for ">> \o job.value.script_name])

\* commit_job up to its call of push_to_gitlab: the job lookup, then the
\* content check, then the arguments of push_to_gitlab
commit_job_args(job_id, payload) ==
    LET job == get_job_by_id(job_id)
        content == IF "content" \in DOMAIN payload THEN payload.content ELSE None
    IN  IF job.raised THEN job
        ELSE IF content = None \/ content = ""
        THEN HTTPException(400, <<"Missing 'content' in request body">>)
        ELSE Return([job |-> job.value,
                     file_path |-> file_path_in_gitlab(job.value),
                     content |-> content,
                     commit_message |->
                         IF "commit_message" \in DOMAIN payload
                         THEN payload.commit_message
                         ELSE <<"Commit job logs for ">> \o job.value.script_name])

\* commit_job: the response made of push_to_gitlab's result
commit_job_response(job, res) ==
    IF res.raised THEN Response(res)
    ELSE Response(Return([job_id |-> job.job_id, file_path |-> res.value.file_path,
                          action |-> res.value.action, status |-> "U+2705 success"]))

Payloads ==
    { [x \in {} |-> ""] }
      \cup { [content |-> c] : c \in Contents }
      \cup { [commit_message |-> m] : m \in Messages }
      \cup { [content |-> c, commit_message |-> m] : c \in Contents, m \in Messages }

RepoPaths == { <<"sas", "/", "optimized", "/">> \o n : n \in ScriptNames }

\* ------------------------------------------------------------------ actions
Finish(c, req, res, response) ==
    /\ pc' = [pc EXCEPT ![c] = "done"]
    /\ request' = [request EXCEPT ![c] = req]
    /\ result' = [result EXCEPT ![c] = res]
    /\ http' = [http EXCEPT ![c] = response]

\* GET /jobs
list_jobs(c) ==
    /\ pc[c] = "idle"
    /\ Finish(c, [route |-> "list_jobs", job_id |-> "", payload |-> <<>>],
              NoResult, Response(load_jobs))
    /\ UNCHANGED <<file, remote, frame, log>>

\* GET /jobs/{job_id}
get_job(c, job_id) ==
    /\ pc[c] = "idle"
    /\ Finish(c, [route |-> "get_job", job_id |-> job_id, payload |-> <<>>],
              NoResult, Response(get_job_by_id(job_id)))
    /\ UNCHANGED <<file, remote, frame, log>>

\* POST /jobs/{job_id}/commit, up to the existence probe being sent
commit_job(c, job_id, payload) ==
    LET req  == [route |-> "commit_job", job_id |-> job_id, payload |-> payload]
        args == commit_job_args(job_id, payload)
    IN  /\ pc[c] = "idle"
        /\ IF args.raised
           THEN /\ Finish(c, req, NoResult, Response(args))
                /\ UNCHANGED <<frame, log>>
           ELSE LET a == args.value
                IN  /\ request' = [request EXCEPT ![c] = req]
                    /\ frame' = [frame EXCEPT ![c] =
                          [job |-> a.job, file_path |-> a.file_path,
                           url |-> BASE_URL \o <<"/">> \o quote(a.file_path),
                           payload |-> [branch |-> "main", content |-> a.content,
                                        commit_message |-> a.commit_message],
                           exists |-> FALSE, method |-> "", action |-> ""]]
                    /\ log' = [log EXCEPT ![c] =
                          Append(@, Sent("GET", file_exists_url(a.file_path, "main"), <<>>))]
                    /\ pc' = [pc EXCEPT ![c] = "file_exists"]
                    /\ UNCHANGED <<result, http>>
        /\ UNCHANGED <<file, remote>>

\* file_exists keeping its answer in a module-level flag all requests read
file_exists_reply_shared(c) ==
    /\ pc[c] = "file_exists"
    /\ LET call == log[c][Len(log[c])]
       IN  \E status \in RemoteStatuses("GET", RemotePath(call.url)) :
             /\ log' = [log EXCEPT ![c] =
                   Append(@, Received(call, RemoteResponse(status),
                                      RemotePath(call.url) \in remote))]
             /\ frame' = [d \in Clients |->
                   [frame[d] EXCEPT !.exists = file_exists_result(RemoteResponse(status))]]
    /\ pc' = [pc EXCEPT ![c] = "push"]
    /\ UNCHANGED <<file, remote, request, result, http>>

\* the remote answers the probe and file_exists returns
file_exists_reply(c) ==
    /\ pc[c] = "file_exists"
    /\ LET call == log[c][Len(log[c])]
       IN  \E status \in RemoteStatuses("GET", RemotePath(call.url)) :
             /\ log' = [log EXCEPT ![c] =
                   Append(@, Received(call, RemoteResponse(status),
                                      RemotePath(call.url) \in remote))]
             /\ frame' = [frame EXCEPT ![c].exists = file_exists_result(RemoteResponse(status))]
    /\ pc' = [pc EXCEPT ![c] = "push"]
    /\ UNCHANGED <<file, remote, request, result, http>>

\* push_to_gitlab sends the update or the create call
push_to_gitlab_write(c) ==
    /\ pc[c] = "push"
    /\ LET w == push_write(frame[c].exists)
       IN  /\ frame' = [frame EXCEPT ![c].method = w.method, ![c].action = w.action]
           /\ log' = [log EXCEPT ![c] = Append(@, Sent(w.method, frame[c].url, frame[c].payload))]
    /\ pc' = [pc EXCEPT ![c] = "write"]
    /\ UNCHANGED <<file, remote, request, result, http>>

\* push_to_gitlab sending the write call again when it fails
push_to_gitlab_reply_retry(c) ==
    /\ pc[c] = "write"
    /\ LET call == log[c][Len(log[c])]
           path == RemotePath(call.url)
       IN  \E status \in RemoteStatuses(call.method, path) :
             LET res == push_outcome(RemoteResponse(status), frame[c].action, frame[c].file_path)
                 answered == Append(log[c], Received(call, RemoteResponse(status), path \in remote))
             IN  /\ remote' = RemoteEffect(call.method, path, status)
                 /\ IF res.raised /\ Len(log[c]) < 5
                    THEN /\ log' = [log EXCEPT ![c] = Append(answered, Sent(call.method, call.url, call.data))]
                         /\ UNCHANGED <<pc, result, http>>
                    ELSE /\ log' = [log EXCEPT ![c] = answered]
                         /\ result' = [result EXCEPT ![c] = res]
                         /\ http' = [http EXCEPT ![c] = commit_job_response(frame[c].job, res)]
                         /\ pc' = [pc EXCEPT ![c] = "done"]
    /\ UNCHANGED <<file, request, frame>>

\* the remote answers the write call; push_to_gitlab and commit_job return
push_to_gitlab_reply(c) ==
    /\ pc[c] = "write"
    /\ LET call == log[c][Len(log[c])]
           path == RemotePath(call.url)
       IN  \E status \in RemoteStatuses(call.method, path) :
             LET res == push_outcome(RemoteResponse(status), frame[c].action, frame[c].file_path)
             IN  /\ log' = [log EXCEPT ![c] =
                       Append(@, Received(call, RemoteResponse(status), path \in remote))]
                 /\ remote' = RemoteEffect(call.method, path, status)
                 /\ result' = [result EXCEPT ![c] = res]
                 /\ http' = [http EXCEPT ![c] = commit_job_response(frame[c].job, res)]
    /\ pc' = [pc EXCEPT ![c] = "done"]
    /\ UNCHANGED <<file, request, frame>>

\* the repository changes out of band: a path is created or deleted
external_change(p) ==
    /\ remote' = IF p \in remote THEN remote \ {p} ELSE remote \cup {p}
    /\ UNCHANGED <<file, pc, request, frame, log, result, http>>

Init ==
    /\ file \in BackingFiles
    /\ remote \in SUBSET RepoPaths
    /\ pc = [c \in Clients |-> "idle"]
    /\ request = [c \in Clients |-> [route |-> "", job_id |-> "", payload |-> <<>>]]
    /\ frame = [c \in Clients |-> NoFrame]
    /\ log = [c \in Clients |-> <<>>]
    /\ result = [c \in Clients |-> NoResult]
    /\ http = [c \in Clients |-> NoResponse]

\* what the service does for one inbound request, in slot c
Serve(c) ==
    \/ list_jobs(c)
    \/ \E j \in JobIds : get_job(c, j)
    \/ \E j \in JobIds, p \in Payloads : commit_job(c, j, p)
    \/ file_exists_reply(c)
    \/ push_to_gitlab_write(c)
    \/ push_to_gitlab_reply(c)

\* One request, handled end to end, while the repository changes out of band.
Next ==
    \/ Serve("c1")
    \/ \E p \in RepoPaths : external_change(p)

Spec == Init /\ [][Next]_vars

\* Requests served concurrently by the hosting runtime, one per client slot.
\* The relay reads the backing file only through the one record a lookup
\* returns, so the files here hold at most one record.
InitConcurrent ==
    /\ Init
    /\ Len(file.jobs) <= 1

NextConcurrent ==
    \/ \E c \in Clients : Serve(c)
    \/ \E p \in RepoPaths : external_change(p)

SpecConcurrent == InitConcurrent /\ [][NextConcurrent]_vars

\* ------------------------------------------------------------- properties
\* HTTP's success class of status codes
Success(status) == status \in 200..299

Done(c)          == pc[c] = "done"
Route(c, r)      == request[c].route = r
\* the stages of a request's remote calls, read off its log
ProbeSent(c)     == Len(log[c]) >= 1
ProbeAnswered(c) == Len(log[c]) >= 2
WriteSent(c)     == Len(log[c]) >= 3
WriteAnswered(c) == Len(log[c]) >= 4
Probe(c)         == log[c][2]
WriteCall(c)     == log[c][3]
WriteAnswer(c)   == log[c][4]
CallsSent(c, m)  == { i \in DOMAIN log[c] : log[c][i].ev = "send" /\ log[c][i].method = m }

\* the records of the backing file and their order, read off the file itself
Known(job_id) == \E i \in DOMAIN file.jobs : file.jobs[i].job_id = job_id
FirstRecord(job_id) ==
    file.jobs[CHOOSE i \in DOMAIN file.jobs :
                 /\ file.jobs[i].job_id = job_id
                 /\ \A k \in 1..(i - 1) : file.jobs[k].job_id # job_id]
NoContent(c) == "content" \notin DOMAIN request[c].payload
TargetPath(name) == <<"sas", "/", "optimized", "/">> \o name

\* C1: when the existence probe of a commit answers with a success status,
\* the commit sends no create (POST) call, and the write call it sends is an
\* update (PUT) of the probed path.
C1_ExistingPathIsUpdated ==
    \A c \in Clients :
        (ProbeAnswered(c) /\ Success(Probe(c).status_code)) =>
            /\ CallsSent(c, "POST") = {}
            /\ pc[c] \in {"write", "done"} =>
                  /\ WriteSent(c)
                  /\ WriteCall(c).method = "PUT"
                  /\ RemotePath(WriteCall(c).url) = RemotePath(Probe(c).url)
                  /\ RemotePath(WriteCall(c).url) = frame[c].file_path

C1_Witness ==
    \E c \in Clients :
        /\ Done(c) /\ WriteAnswered(c)
        /\ Probe(c).status_code = 200
        /\ WriteCall(c).method = "PUT"

\* C2: when the existence probe of a commit answers not-found, the commit
\* sends no update (PUT) call, and the write call it sends is a create (POST)
\* of the probed path; when that call succeeds the response has action
\* "created" and file_path sas/optimized/<script_name> of the job.
C2_AbsentPathIsCreated ==
    \A c \in Clients :
        (ProbeAnswered(c) /\ Probe(c).status_code = 404) =>
            /\ CallsSent(c, "PUT") = {}
            /\ pc[c] \in {"write", "done"} =>
                  /\ WriteSent(c)
                  /\ WriteCall(c).method = "POST"
                  /\ RemotePath(WriteCall(c).url) = RemotePath(Probe(c).url)
                  /\ RemotePath(WriteCall(c).url)
                        = TargetPath(FirstRecord(request[c].job_id).script_name)
            /\ (WriteAnswered(c) /\ Success(WriteAnswer(c).status_code)) =>
                  /\ ~result[c].raised
                  /\ result[c].value.action = "created"
                  /\ http[c].status = 200
                  /\ http[c].body.action = "created"
                  /\ http[c].body.file_path
                        = TargetPath(FirstRecord(request[c].job_id).script_name)

C2_Witness ==
    \E c \in Clients :
        /\ Done(c) /\ WriteAnswered(c)
        /\ Probe(c).status_code = 404
        /\ WriteAnswer(c).status_code = 201
        /\ http[c].body.action = "created"
        /\ http[c].body.file_path = <<"sas", "/", "optimized", "/", "x.sas">>

\* C3 as stated: a commit request with no content field returns 400 and
\* makes no remote call, for every job id.
C3_NoContentIs400 ==
    \A c \in Clients :
        (Done(c) /\ Route(c, "commit_job") /\ NoContent(c)) =>
            /\ http[c].status = 400
            /\ log[c] = <<>>

\* C3 amended: a commit request with no content field makes no remote call;
\* it returns 400 when the backing file loads and holds a record of the job
\* id, 404 when the file loads and holds none, 500 when it does not load.
C3_NoContentNoRemoteCall ==
    \A c \in Clients :
        (Route(c, "commit_job") /\ NoContent(c)) =>
            /\ Done(c)
            /\ log[c] = <<>>
            /\ http[c].status =
                  (IF file.load_error THEN 500
                   ELSE IF Known(request[c].job_id) THEN 400 ELSE 404)

C3_Witness ==
    \E c \in Clients :
        /\ Done(c) /\ Route(c, "commit_job") /\ NoContent(c)
        /\ Known(request[c].job_id)
        /\ http[c].status = 400
        /\ log[c] = <<>>

\* the encoded path inside a raw-file URL: after the five tokens of
\* <base>/projects/<project path>/repository/files/ and before /raw?ref=main
RawUrlSegment(url) == SubSeq(url, 7, Len(url) - 1)

IsJobWithRawUrl(body, rec) ==
    /\ body.job_id = rec.job_id
    /\ body.script_name = rec.script_name
    /\ body.script_path = rec.script_path
    /\ SubSeq(body.file_raw_url, 1, 6)
          = <<"https://gitlab.com/api/v4", "/projects/", "group", "%2F", "repo",
              "/repository/files/">>
    /\ body.file_raw_url[Len(body.file_raw_url)] = "/raw?ref=main"
    /\ \A i \in DOMAIN RawUrlSegment(body.file_raw_url) :
          RawUrlSegment(body.file_raw_url)[i] # "/"
    /\ unquote(RawUrlSegment(body.file_raw_url)) = rec.script_path

\* C4 as stated: GET /jobs/{job_id} returns 404 for every job_id that no
\* record of the backing file has, and 200 with the matching record plus the
\* raw URL for every job_id that one has.
C4_GetJobFoundOr404 ==
    \A c \in Clients :
        (Done(c) /\ Route(c, "get_job")) =>
            IF Known(request[c].job_id)
            THEN /\ http[c].status = 200
                 /\ IsJobWithRawUrl(http[c].body, FirstRecord(request[c].job_id))
            ELSE http[c].status = 404

\* C4 amended: when the backing file loads, GET /jobs/{job_id} returns 404
\* for every job_id that no record has and 200 with the matching record plus
\* the raw URL for every job_id that one has; when the file does not load it
\* returns 500.
C4_GetJobOfLoadedFile ==
    \A c \in Clients :
        (Done(c) /\ Route(c, "get_job")) =>
            IF file.load_error THEN http[c].status = 500
            ELSE IF Known(request[c].job_id)
            THEN /\ http[c].status = 200
                 /\ IsJobWithRawUrl(http[c].body, FirstRecord(request[c].job_id))
            ELSE http[c].status = 404

C4_Witness ==
    \E c \in Clients :
        /\ Done(c) /\ Route(c, "get_job")
        /\ ~file.load_error /\ file.jobs # <<>>
        /\ ~Known(request[c].job_id)
        /\ http[c].status = 404

C6_ProbeThenOneWrite ==
    \A c \in Clients :
        /\ Len(log[c]) <= 4
        /\ ProbeSent(c) => (log[c][1].ev = "send" /\ log[c][1].method = "GET")
        /\ ProbeAnswered(c) => (Probe(c).ev = "recv" /\ Probe(c).method = "GET")
        /\ WriteSent(c) =>
              (WriteCall(c).ev = "send" /\ WriteCall(c).method \in {"PUT", "POST"})
        /\ WriteAnswered(c) =>
              (WriteAnswer(c).ev = "recv" /\ WriteAnswer(c).method = WriteCall(c).method)
        /\ pc[c] = "file_exists" <=> Len(log[c]) = 1
        /\ pc[c] = "push" <=> Len(log[c]) = 2
        /\ pc[c] = "write" <=> Len(log[c]) = 3
        /\ (Done(c) /\ ProbeSent(c)) =>
              /\ Len(log[c]) = 4
              /\ Cardinality(CallsSent(c, "GET")) = 1
              /\ Cardinality(CallsSent(c, "PUT") \cup CallsSent(c, "POST")) = 1
              /\ (~result[c].raised /\ http[c].status = 200)
                    \/ (result[c].raised /\ http[c].status = result[c].status_code)

C6_Witness ==
    \E c \in Clients :
        /\ Done(c) /\ Len(log[c]) = 4
        /\ result[c].raised
        /\ WriteCall(c).method = "POST"

\* C7: the record a lookup returns, and the script_name a commit builds its
\* target path from, are those of the first record in backing-file order
\* whose job_id is the requested one.
C7_FirstMatch ==
    \A c \in Clients :
        Known(request[c].job_id) =>
            /\ (Done(c) /\ Route(c, "get_job")) =>
                  /\ http[c].status = 200
                  /\ http[c].body.script_name = FirstRecord(request[c].job_id).script_name
                  /\ http[c].body.script_path = FirstRecord(request[c].job_id).script_path
            /\ (Route(c, "commit_job") /\ ProbeSent(c)) =>
                  /\ frame[c].file_path = TargetPath(FirstRecord(request[c].job_id).script_name)
                  /\ RemotePath(log[c][1].url) = frame[c].file_path

C7_Witness ==
    \E c \in Clients :
        /\ Done(c) /\ Route(c, "get_job")
        /\ Len(file.jobs) >= 2
        /\ file.jobs[1].job_id = request[c].job_id
        /\ file.jobs[2].job_id = request[c].job_id
        /\ file.jobs[1].script_name # file.jobs[2].script_name
        /\ http[c].body.script_name = file.jobs[1].script_name

\* C8 as stated: a commit request for a job_id that no record of the backing
\* file has returns 404 and makes no remote call, whatever its body is.
C8_UnknownJobIs404 ==
    \A c \in Clients :
        (Route(c, "commit_job") /\ ~Known(request[c].job_id)) =>
            /\ Done(c)
            /\ http[c].status = 404
            /\ log[c] = <<>>

\* C8 amended: a commit request for a job_id that no record of the backing
\* file has makes no remote call, whatever its body is; it returns 404 when
\* the file loads and 500 when the file does not load.
C8_UnknownJobNoRemoteCall ==
    \A c \in Clients :
        (Route(c, "commit_job") /\ ~Known(request[c].job_id)) =>
            /\ Done(c)
            /\ http[c].status = (IF file.load_error THEN 500 ELSE 404)
            /\ log[c] = <<>>

C8_Witness ==
    \E c \in Clients :
        /\ Done(c) /\ Route(c, "commit_job")
        /\ ~file.load_error /\ file.jobs # <<>>
        /\ ~Known(request[c].job_id)
        /\ NoContent(c)
        /\ http[c].status = 404
        /\ log[c] = <<>>

ClientState(c) == <<pc[c], request[c], frame[c], log[c], result[c], http[c]>>

\* C10: the service keeps no state that two requests share: a step changes
\* the request state of at most one client and never the backing file, also
\* when two commits of the same absent path interleave so that both probes
\* answer not-found and both send a create call.
C10_NoSharedState ==
    [][ /\ file' = file
        /\ \A c, d \in Clients :
              (c # d /\ ClientState(c)' # ClientState(c)) => ClientState(d)' = ClientState(d)
      ]_vars

\* both probes found the path absent, both requests sent a create call, one
\* was created and the other reached the remote when the path existed
C10_Witness ==
    \E c, d \in Clients :
        /\ c # d
        /\ WriteAnswered(c) /\ WriteAnswered(d)
        /\ Probe(c).url = Probe(d).url
        /\ Probe(c).status_code = 404 /\ ~Probe(c).existed
        /\ Probe(d).status_code = 404 /\ ~Probe(d).existed
        /\ WriteCall(c).method = "POST" /\ WriteCall(d).method = "POST"
        /\ WriteAnswer(c).status_code = 201 /\ ~WriteAnswer(c).existed
        /\ WriteAnswer(d).existed /\ WriteAnswer(d).status_code = 400

====
